---- MODULE Spec2Model ----
(***************************************************************************)
(* Event booking: the RSVP ledger, the review ledger and the account       *)
(* verification / password-reset tokens, modelled from the Django views,   *)
(* serializers and models.                                                 *)
(*                                                                         *)
(*   Spec      requests handled one at a time (each action is one whole    *)
(*             request handler)                                            *)
(*   SpecConc  rsvp_to_event and Review creation as interleaved database   *)
(*             steps of concurrent requests                                *)
(*   SpecAuth  the accounts API: register, login, verify, reset, profile   *)
(*   SpecEvents  the event endpoints and the import of external events,    *)
(*             for requesters of every role                                *)
(*   SpecAccess  the attendee list, the admin and the organizer endpoints  *)
(*   SpecTier  the accounts API with the role fields of the request body   *)
(***************************************************************************)
EXTENDS Integers, FiniteSets, Sequences, Bags, TLC

\* ---------------------------------------------------------------- bounds
MaxUsers == 2
MaxEvents == 1
MaxCapacity == 2
MaxReqs == 2
MaxHashes == 2
MaxLogins == 1
MaxIssued == 2
MaxAccounts == 1
MaxExternals == 1
MaxCategories == 1

UserIds == 1..MaxUsers
AccountIds == 1..MaxAccounts
EventIds == 1..MaxEvents
ReqIds == 1..MaxReqs
ExternalIds == 1..MaxExternals
CategoryIds == 1..MaxCategories

\* The clock is in hours; it only takes the values at which some deadline of
\* the program has just passed (the 1 h and the 24 h links).
AuthTimes == {0, 2, 25}
\* end_time values an organizer may give an event, and the clock values that
\* tell them apart
EndTimes == {1, 24}
EventTimes == {0, 2, 25}
\* the same for the interleaved requests
ConcEndTimes == {1}
ConcTimes == {0, 2}

\* RSVP.RSVP_STATUS_CHOICES
Statuses == {"going", "interested", "cancelled"}
\* what a request body may carry as status: a valid choice or anything else
StatusInputs == Statuses \cup {"bogus"}

VARIABLES
    now,      \* timezone.now(), hours
    users,    \* accounts_user rows, by pk
    events,   \* events_event rows, by pk
    rsvps,    \* rsvp_rsvp rows: a bag of [user, event, status]
    reviews,  \* events_review rows: a bag of [user, event]
    reqs,     \* requests in flight (SpecConc)
    issued,   \* links mailed so far: the token, its purpose and the expires of the link
    spent,    \* history: tokens verify_email accepted, tokens older than a reset
    externals, \* external_events_externalevent rows, by pk
    categories, \* events_eventcategory rows: the set of their pks
    resp      \* the response the last step sent (NoResp when it sent none)

vars == <<now, users, events, rsvps, reviews, reqs, issued, spent, externals,
          categories, resp>>

\* ------------------------------------------------------------- rows, bags
NoEvent == [exists |-> FALSE, created_by |-> 0, start_time |-> 0, end_time |-> 0,
            max_attendees |-> 0]

Row(u, e, s) == [user |-> u, event |-> e, status |-> s]
RevRow(u, e) == [user |-> u, event |-> e]

RECURSIVE SumOver(_, _)
SumOver(S, b) ==
    IF S = {} THEN 0
    ELSE LET x == CHOOSE y \in S : TRUE
         IN  CopiesIn(x, b) + SumOver(S \ {x}, b)

\* rows of rs with user u and event e: RSVP.objects.filter(user=u, event=e).count()
RowCount(rs, u, e) == SumOver({Row(u, e, s) : s \in Statuses}, rs)

\* event.rsvps.filter(status='going').count()
current_attendee_count(rs, e) == SumOver({Row(u, e, "going") : u \in UserIds}, rs)

ReviewCount(rv, u, e) == CopiesIn(RevRow(u, e), rv)

AddRow(b, r) == b (+) SetToBag({r})
DelRow(b, r) == b (-) SetToBag({r})

\* the status of the row RSVP.objects.get(user=u, event=e) returns (one row)
StatusOf(rs, u, e) == CHOOSE s \in Statuses : CopiesIn(Row(u, e, s), rs) > 0

\* ------------------------------------------------------- Event properties
is_past(e) == events[e].end_time < now

is_full_gt(rs, e) ==
    IF events[e].max_attendees = 0 THEN FALSE
    ELSE current_attendee_count(rs, e) > events[e].max_attendees

\* max_attendees None and 0 are both "not self.max_attendees": modelled as 0
is_full(rs, e) ==
    IF events[e].max_attendees = 0 THEN FALSE
    ELSE current_attendee_count(rs, e) >= events[e].max_attendees

\* --------------------------------------------------------------- RSVP.clean
\* "ok", or the ValidationError RSVP.clean raises for a row of event e that is
\* about to be saved with status s, the table being rs
RSVP_clean(rs, e, s) ==
    IF s = "going" /\ is_full(rs, e) THEN "full"
    ELSE IF is_past(e) THEN "past"
    ELSE "ok"

\* the database's unique_together (user, event) on INSERT
unique_none(rs, u, e) == TRUE

RSVP_unique_ok(rs, u, e) == RowCount(rs, u, e) = 0

\* rows: what the body of the response shows (RSVP rows, or the statistics)
Resp(op, u, e, s, code, error) ==
    [op |-> op, user |-> u, event |-> e, req |-> s, code |-> code, error |-> error,
     rows |-> {}]

NoResp == Resp("none", 0, 0, "none", 0, "none")

NoneSpent == [verified |-> {}, reset |-> {}]

\* ExternalEvent rows; end_time 0 is NULL, imported_event 0 is NULL
NoExternal == [exists |-> FALSE, start_time |-> 0, end_time |-> 0,
               is_imported |-> FALSE, imported_event |-> 0]

\* ------------------------------------------- RSVPCreateSerializer.create
\* get_or_create then, for an existing row, status update and save; the
\* result is the new table and the response. A django ValidationError or
\* MultipleObjectsReturned escaping the view is a 500.
SerializerCreate(rs, u, e, s) ==
    IF RowCount(rs, u, e) > 1
    THEN [rsvps |-> rs, code |-> 500, error |-> "multiple"]
    ELSE IF RowCount(rs, u, e) = 1
    THEN IF RSVP_clean(rs, e, s) # "ok"
         THEN [rsvps |-> rs, code |-> 500, error |-> RSVP_clean(rs, e, s)]
         ELSE [rsvps |-> AddRow(DelRow(rs, Row(u, e, StatusOf(rs, u, e))), Row(u, e, s)),
               code |-> 201, error |-> "none"]
    ELSE IF RSVP_clean(rs, e, s) # "ok"
         THEN [rsvps |-> rs, code |-> 500, error |-> RSVP_clean(rs, e, s)]
         ELSE [rsvps |-> AddRow(rs, Row(u, e, s)), code |-> 201, error |-> "none"]

\* ------------------------------------------------ RSVPViewSet.rsvp_to_event
RsvpToEventResult(rs, u, e, s) ==
    IF ~events[e].exists THEN [rsvps |-> rs, code |-> 404, error |-> "not_found"]
    ELSE IF is_full(rs, e) THEN [rsvps |-> rs, code |-> 400, error |-> "full"]
    ELSE IF is_past(e) THEN [rsvps |-> rs, code |-> 400, error |-> "past"]
    ELSE IF s \notin Statuses THEN [rsvps |-> rs, code |-> 400, error |-> "invalid"]
    ELSE SerializerCreate(rs, u, e, s)

\* request.user of an authenticated request: an existing, active account
\* that has logged in (it holds a JWT)
Authenticated(u) == users[u].exists /\ users[u].is_active /\ users[u].last_login > 0

rsvp_to_event(u, e, s) ==
    /\ Authenticated(u)
    /\ LET r == RsvpToEventResult(rsvps, u, e, s)
       IN  /\ rsvps' = r.rsvps
           /\ resp' = Resp("rsvp_to_event", u, e, s, r.code, r.error)
    /\ UNCHANGED <<now, users, events, reviews, reqs, issued, spent, externals, categories>>

\* --------------------------------------------------- RSVPViewSet.cancel_rsvp
CancelResult(rs, u, e) ==
    IF ~events[e].exists THEN [rsvps |-> rs, code |-> 404, error |-> "not_found"]
    ELSE IF RowCount(rs, u, e) = 0 THEN [rsvps |-> rs, code |-> 404, error |-> "no_rsvp"]
    ELSE IF RowCount(rs, u, e) > 1 THEN [rsvps |-> rs, code |-> 500, error |-> "multiple"]
    ELSE IF RSVP_clean(rs, e, "cancelled") # "ok"
         THEN [rsvps |-> rs, code |-> 500, error |-> RSVP_clean(rs, e, "cancelled")]
    ELSE [rsvps |-> AddRow(DelRow(rs, Row(u, e, StatusOf(rs, u, e))), Row(u, e, "cancelled")),
          code |-> 200, error |-> "none"]

cancel_rsvp(u, e) ==
    /\ Authenticated(u)
    /\ LET r == CancelResult(rsvps, u, e)
       IN  /\ rsvps' = r.rsvps
           /\ resp' = Resp("cancel_rsvp", u, e, "cancelled", r.code, r.error)
    /\ UNCHANGED <<now, users, events, reviews, reqs, issued, spent, externals, categories>>

\* ------------------------------------- RSVPViewSet generic update / destroy
\* PUT/PATCH /rsvps/{id}/: the row comes from get_queryset (the requester's
\* rows only), RSVPSerializer.update sets status and saves (RSVP.clean runs).
UpdateResult(rs, row, s) ==
    IF s \notin Statuses THEN [rsvps |-> rs, code |-> 400, error |-> "invalid"]
    ELSE IF RSVP_clean(rs, row.event, s) # "ok"
         THEN [rsvps |-> rs, code |-> 500, error |-> RSVP_clean(rs, row.event, s)]
    ELSE [rsvps |-> AddRow(DelRow(rs, row), Row(row.user, row.event, s)),
          code |-> 200, error |-> "none"]

\* RSVPViewSet.get_queryset: the requester's rows
get_queryset_all(rs, u) == BagToSet(rs)

get_queryset(rs, u) == {row \in BagToSet(rs) : row.user = u}

\* IsRSVPOwnerOrReadOnly.has_object_permission for an unsafe method
IsRSVPOwner(u, row) == row.user = u

rsvp_update(u, e, s) ==
    /\ Authenticated(u)
    /\ \E row \in get_queryset(rsvps, u) :
          /\ row.event = e
          /\ IF ~IsRSVPOwner(u, row)
             THEN /\ rsvps' = rsvps
                  /\ resp' = Resp("rsvp_update", u, e, s, 403, "forbidden")
             ELSE LET r == UpdateResult(rsvps, row, s)
                  IN  /\ rsvps' = r.rsvps
                      /\ resp' = Resp("rsvp_update", u, e, s, r.code, r.error)
    /\ UNCHANGED <<now, users, events, reviews, reqs, issued, spent, externals, categories>>

\* DELETE /rsvps/{id}/
rsvp_destroy(u, e) ==
    /\ Authenticated(u)
    /\ \E row \in get_queryset(rsvps, u) :
          /\ row.event = e
          /\ IF ~IsRSVPOwner(u, row)
             THEN /\ rsvps' = rsvps
                  /\ resp' = Resp("rsvp_destroy", u, e, "none", 403, "forbidden")
             ELSE /\ rsvps' = DelRow(rsvps, row)
                  /\ resp' = Resp("rsvp_destroy", u, e, "none", 204, "none")
    /\ UNCHANGED <<now, users, events, reviews, reqs, issued, spent, externals, categories>>

\* a request for a row id that is not among the requester's rows: 404
rsvp_detail_404(u) ==
    /\ Authenticated(u)
    /\ resp' = Resp("rsvp_detail", u, 0, "none", 404, "not_found")
    /\ UNCHANGED <<now, users, events, rsvps, reviews, reqs, issued, spent, externals, categories>>

\* GET /rsvps/ (list, and my-rsvps): the rows of get_queryset
rsvp_list(u) ==
    /\ Authenticated(u)
    /\ resp' = [Resp("rsvp_list", u, 0, "none", 200, "none")
                   EXCEPT !.rows = get_queryset(rsvps, u)]
    /\ UNCHANGED <<now, users, events, rsvps, reviews, reqs, issued, spent, externals, categories>>

\* GET /rsvps/{id}/: a row of get_queryset (safe method: no owner test)
rsvp_retrieve(u, e) ==
    /\ Authenticated(u)
    /\ \E row \in get_queryset(rsvps, u) :
          /\ row.event = e
          /\ resp' = [Resp("rsvp_retrieve", u, e, "none", 200, "none")
                         EXCEPT !.rows = {row}]
    /\ UNCHANGED <<now, users, events, rsvps, reviews, reqs, issued, spent, externals, categories>>

\* Any RSVPViewSet request without credentials: IsAuthenticated refuses it
\* before the view runs. The requester is 0 (AnonymousUser).
RsvpEndpoints == {"rsvp_to_event", "cancel_rsvp", "rsvp_update", "rsvp_destroy",
                  "rsvp_create", "rsvp_list", "rsvp_retrieve"}

rsvp_unauthenticated(op) ==
    /\ resp' = Resp(op, 0, 0, "none", 401, "not_authenticated")
    /\ UNCHANGED <<now, users, events, rsvps, reviews, reqs, issued, spent, externals, categories>>

\* POST /rsvps/: RSVPSerializer has user and event read-only, so the new
\* RSVP has no event and RSVP.clean raises on self.event: 500, no row.
rsvp_create(u, s) ==
    /\ Authenticated(u)
    /\ resp' = IF s \in Statuses THEN Resp("rsvp_create", u, 0, s, 500, "no_event")
               ELSE Resp("rsvp_create", u, 0, s, 400, "invalid")
    /\ UNCHANGED <<now, users, events, rsvps, reviews, reqs, issued, spent, externals, categories>>

\* ---------------------------------------------------------------- events
\* EventViewSet.create through EventCreateSerializer.create
event_create(u, e, end, cap) ==
    /\ Authenticated(u) /\ users[u].is_organizer
    /\ ~events[e].exists
    /\ events' = [events EXCEPT ![e] = [exists |-> TRUE, created_by |-> u,
                                        start_time |-> 0, end_time |-> end,
                                        max_attendees |-> cap]]
    /\ resp' = NoResp
    /\ UNCHANGED <<now, users, rsvps, reviews, reqs, issued, spent, externals, categories>>

\* EventViewSet.update / partial_update through EventCreateSerializer.update
event_update(u, e, end, cap) ==
    /\ Authenticated(u) /\ users[u].is_organizer
    /\ events[e].exists /\ events[e].created_by = u
    /\ events' = [events EXCEPT ![e].end_time = end, ![e].max_attendees = cap]
    /\ resp' = NoResp
    /\ UNCHANGED <<now, users, rsvps, reviews, reqs, issued, spent, externals, categories>>

\* ------------------------------------------------- derived capacity values
\* available_spots: None (limited FALSE) or a number
NoSpots == [limited |-> FALSE, spots |-> 0]

\* the Event.available_spots property
available_spots(rs, e) ==
    IF events[e].max_attendees = 0 THEN NoSpots
    ELSE [limited |-> TRUE,
          spots |-> IF events[e].max_attendees - current_attendee_count(rs, e) < 0 THEN 0
                    ELSE events[e].max_attendees - current_attendee_count(rs, e)]

\* 'available_spots' of basic_stats in EventViewSet.stats: the difference,
\* computed in the view without the property
stats_available_spots(rs, e) ==
    IF events[e].max_attendees = 0 THEN NoSpots
    ELSE [limited |-> TRUE,
          spots |-> events[e].max_attendees - current_attendee_count(rs, e)]

\* GET /events/{e}/stats/ (IsAuthenticated, get_object); u is 0 for a
\* request without credentials
stats(u, e) ==
    /\ resp' = IF u = 0 THEN Resp("stats", u, e, "none", 401, "not_authenticated")
               ELSE IF ~events[e].exists THEN Resp("stats", u, e, "none", 404, "not_found")
               ELSE [Resp("stats", u, e, "none", 200, "none") EXCEPT !.rows =
                        {[available_spots |-> stats_available_spots(rsvps, e),
                          is_full |-> is_full(rsvps, e)]}]
    /\ u # 0 => Authenticated(u)
    /\ UNCHANGED <<now, users, events, rsvps, reviews, reqs, issued, spent, externals, categories>>

\* ------------------------------------------------------------------ time
Tick(T) ==
    /\ \E t \in T : t > now /\ now' = t
    /\ resp' = NoResp
    /\ UNCHANGED <<users, events, rsvps, reviews, reqs, issued, spent, externals, categories>>

\* ---------------------------------------------------------------- reviews
\* "ok", or the ValidationError Review.clean raises for a review by u of e
Review_clean(rs, u, e) ==
    IF ~is_past(e) THEN "not_past"
    ELSE IF CopiesIn(Row(u, e, "going"), rs) = 0 THEN "not_attended"
    ELSE "ok"

\* the database's unique_together (user, event) on INSERT into events_review
Review_unique_ok(rv, u, e) == ReviewCount(rv, u, e) = 0

\* Review.save on a new row (Review.objects.create, the admin site's add form):
\* clean, then INSERT under the unique constraint
Review_save(u, e) ==
    /\ users[u].exists /\ events[e].exists
    /\ LET c == Review_clean(rsvps, u, e)
       IN  IF c # "ok"
           THEN /\ reviews' = reviews
                /\ resp' = Resp("Review_save", u, e, "none", 500, c)
           ELSE IF ~Review_unique_ok(reviews, u, e)
           THEN /\ reviews' = reviews
                /\ resp' = Resp("Review_save", u, e, "none", 500, "integrity")
           ELSE /\ reviews' = AddRow(reviews, RevRow(u, e))
                /\ resp' = Resp("Review_save", u, e, "none", 201, "none")
    /\ UNCHANGED <<now, users, events, rsvps, reqs, issued, spent, externals, categories>>

\* rating values a request may carry: 0 fails MinValueValidator(1), 5 is valid
Ratings == {0, 5}

\* POST /events/reviews/ (ReviewViewSet.create). The router gives the view no
\* event_id, so CanReviewEvent allows every authenticated request and
\* perform_create runs Event.objects.get(id=None), which raises DoesNotExist.
\* e is the event the client means; ReviewSerializer has no field for it.
review_create(u, e, rating) ==
    /\ Authenticated(u)
    /\ events[e].exists
    /\ resp' = IF rating < 1 \/ rating > 5
               THEN Resp("review_create", u, e, "bogus", 400, "invalid")
               ELSE Resp("review_create", u, e, "valid", 500, "no_event")
    /\ UNCHANGED <<now, users, events, rsvps, reviews, reqs, issued, spent, externals, categories>>

\* ------------------------------------------------------- Spec: sequential
\* password: 0 is a text stored unhashed, n >= 1 the n-th salted hash made for
\* the account (hashes counts them); last_login: 0 is None, n the n-th login.
User(organizer) ==
    [exists |-> TRUE, is_active |-> TRUE, email_verified |-> TRUE,
     password |-> 1, hashes |-> 1, last_login |-> 1, is_organizer |-> organizer,
     is_staff |-> FALSE, is_superuser |-> FALSE]

NoUser == [exists |-> FALSE, is_active |-> FALSE, email_verified |-> FALSE,
           password |-> 0, hashes |-> 0, last_login |-> 0, is_organizer |-> FALSE,
           is_staff |-> FALSE, is_superuser |-> FALSE]

\* the accounts exist and are verified, account 1 is an organizer; no events
Init ==
    /\ now = 0
    /\ users = [u \in UserIds |-> User(u = 1)]
    /\ events = [e \in EventIds |-> NoEvent]
    /\ rsvps = EmptyBag
    /\ reviews = EmptyBag
    /\ reqs = <<>>
    /\ issued = {}
    /\ spent = NoneSpent
    /\ externals = [x \in ExternalIds |-> NoExternal]
    /\ categories = {}
    /\ resp = NoResp

Capacities == 0..MaxCapacity

Next ==
    \/ \E u \in UserIds, e \in EventIds, s \in StatusInputs : rsvp_to_event(u, e, s)
    \/ \E u \in UserIds, e \in EventIds : cancel_rsvp(u, e)
    \/ \E u \in UserIds, e \in EventIds, s \in StatusInputs : rsvp_update(u, e, s)
    \/ \E u \in UserIds, e \in EventIds : rsvp_destroy(u, e)
    \/ \E u \in UserIds : rsvp_detail_404(u)
    \/ \E u \in UserIds : rsvp_list(u)
    \/ \E u \in UserIds, e \in EventIds : rsvp_retrieve(u, e)
    \/ \E op \in RsvpEndpoints : rsvp_unauthenticated(op)
    \/ \E u \in UserIds, s \in StatusInputs : rsvp_create(u, s)
    \/ \E u \in UserIds, e \in EventIds, end \in EndTimes, cap \in Capacities :
          event_create(u, e, end, cap)
    \/ \E u \in UserIds, e \in EventIds, end \in EndTimes, cap \in Capacities :
          event_update(u, e, end, cap)
    \/ \E u \in UserIds \cup {0}, e \in EventIds : stats(u, e)
    \/ \E u \in UserIds, e \in EventIds : Review_save(u, e)
    \/ \E u \in UserIds, e \in EventIds, r \in Ratings : review_create(u, e, r)
    \/ Tick(EventTimes)

Spec == Init /\ [][Next]_vars

\* ------------------------------------------------------------ claims, Spec
Attended(rs, u, e) == CopiesIn(Row(u, e, "going"), rs) > 0

\* C1: with requests handled one at a time, no RSVP request takes an event
\* whose max_attendees is set and unchanged from at most max_attendees 'going'
\* rows to more; and a 'going' rsvp_to_event by a user without an RSVP on a
\* full event gets the capacity error and leaves the table as it was.
C1_CapacityKept ==
    [][ /\ \A e \in EventIds :
             ( /\ events[e].exists /\ events[e].max_attendees # 0
               /\ events'[e].max_attendees = events[e].max_attendees
               /\ current_attendee_count(rsvps, e) <= events[e].max_attendees )
             => current_attendee_count(rsvps', e) <= events[e].max_attendees
        /\ ( /\ resp'.op = "rsvp_to_event" /\ resp'.req = "going"
             /\ events[resp'.event].exists
             /\ events[resp'.event].max_attendees # 0
             /\ current_attendee_count(rsvps, resp'.event)
                    >= events[resp'.event].max_attendees
             /\ RowCount(rsvps, resp'.user, resp'.event) = 0 )
           => ( resp'.code = 400 /\ resp'.error = "full" /\ rsvps' = rsvps )
      ]_vars

\* a user without an RSVP has just been refused on an event that is exactly full
C1_Witness ==
    /\ resp.op = "rsvp_to_event" /\ resp.req = "going"
    /\ resp.code = 400 /\ resp.error = "full"
    /\ RowCount(rsvps, resp.user, resp.event) = 0
    /\ events[resp.event].max_attendees # 0
    /\ current_attendee_count(rsvps, resp.event) = events[resp.event].max_attendees

\* C14: a request to the RSVP endpoints by user A leaves every row of
\* another user as it was and shows only rows of A; a request without
\* credentials leaves the whole table as it was.
C14_OwnRsvpsOnly ==
    [][ resp'.op \in RsvpEndpoints \cup {"rsvp_detail"} =>
          /\ \A row \in BagToSet(rsvps) \cup BagToSet(rsvps') :
                 row.user # resp'.user => CopiesIn(row, rsvps') = CopiesIn(row, rsvps)
          /\ \A row \in resp'.rows : row.user = resp'.user
          /\ resp'.user = 0 => rsvps' = rsvps ]_vars

\* a user listed their RSVPs while another user had RSVPs too
C14_Witness ==
    /\ resp.op = "rsvp_list" /\ resp.rows # {}
    /\ \E row \in BagToSet(rsvps) : row.user # resp.user

\* C19: on an event that is full and not past, an rsvp_to_event request with
\* status 'interested' succeeds and records that status.
C19_InterestedUnguarded ==
    [][ ( /\ resp'.op = "rsvp_to_event" /\ resp'.req = "interested"
          /\ resp'.user # 0
          /\ events[resp'.event].exists
          /\ is_full(rsvps, resp'.event) /\ ~is_past(resp'.event) )
        => /\ resp'.code = 201
           /\ CopiesIn(Row(resp'.user, resp'.event, "interested"), rsvps') = 1 ]_vars

\* C20: a user whose RSVP is 'going' on an event that is exactly at capacity
\* and not past is not refused for capacity when submitting 'going' again,
\* through rsvp_to_event or through the generic update.
C20_OwnRowNotCounted ==
    [][ ( /\ resp'.op \in {"rsvp_to_event", "rsvp_update"} /\ resp'.req = "going"
          /\ resp'.user # 0
          /\ events[resp'.event].exists
          /\ events[resp'.event].max_attendees # 0
          /\ current_attendee_count(rsvps, resp'.event)
                 = events[resp'.event].max_attendees
          /\ Attended(rsvps, resp'.user, resp'.event)
          /\ ~is_past(resp'.event) )
        => resp'.error # "full" ]_vars

\* C21: cancel_rsvp on an existing RSVP answers 200 and leaves the row
\* 'cancelled' whatever the event's timing, a past event included, and
\* rsvp_to_event on a past event is refused for every status and stores
\* nothing.
C21_CancelAnyTime ==
    [][ /\ (resp'.op = "cancel_rsvp" /\ resp'.user # 0
              /\ events[resp'.event].exists
              /\ RowCount(rsvps, resp'.user, resp'.event) = 1) =>
               /\ resp'.code = 200
               /\ CopiesIn(Row(resp'.user, resp'.event, "cancelled"), rsvps') = 1
        /\ (resp'.op = "rsvp_to_event" /\ resp'.user # 0
              /\ events[resp'.event].exists /\ is_past(resp'.event)) =>
               /\ resp'.code >= 400
               /\ rsvps' = rsvps ]_vars

\* C27: no update of an existing event (max_attendees set where it was
\* unlimited, or lowered) leaves the event with more 'going' RSVPs than its
\* max_attendees.
C27_UpdateKeepsCapacity ==
    [][ \A e \in EventIds :
          (events[e].exists /\ events'[e].exists /\ events'[e] # events[e]
             /\ events'[e].max_attendees # 0) =>
              current_attendee_count(rsvps', e) <= events'[e].max_attendees ]_vars

\* C28: what is read of the derived capacity values agrees with the RSVP
\* rows at that moment: is_full is (max_attendees set and going count >=
\* max_attendees); available_spots, as the Event property and as the stats
\* endpoint reports it, is max(0, max_attendees - going count) when
\* max_attendees is set, never negative, and None otherwise.
C28_DerivedCapacityValues ==
    [][ (resp'.op = "stats" /\ resp'.code = 200) =>
          LET max == events[resp'.event].max_attendees
              going == current_attendee_count(rsvps, resp'.event)
              spots == IF max = 0 THEN NoSpots
                       ELSE [limited |-> TRUE,
                             spots |-> IF max - going < 0 THEN 0 ELSE max - going]
          IN  /\ available_spots(rsvps, resp'.event) = spots
              /\ \A body \in resp'.rows :
                     /\ body.is_full = (max # 0 /\ going >= max)
                     /\ body.available_spots = spots ]_vars

\* C4: a Review row is created only for a past event the user attended; a
\* review request of an attendee of a past event succeeds and stores the row;
\* a request of a user who did not attend, or for an event that is not past,
\* is rejected and stores nothing.
C4_ReviewEligibility ==
    [][ /\ \A u \in UserIds, e \in EventIds :
             ReviewCount(reviews', u, e) > ReviewCount(reviews, u, e)
             => (is_past(e) /\ Attended(rsvps, u, e))
        /\ (resp'.op = "review_create" /\ resp'.req = "valid")
           => IF /\ is_past(resp'.event)
                 /\ Attended(rsvps, resp'.user, resp'.event)
                 /\ ReviewCount(reviews, resp'.user, resp'.event) = 0
              THEN /\ resp'.code = 201
                   /\ ReviewCount(reviews', resp'.user, resp'.event) = 1
              ELSE resp'.code >= 400 /\ reviews' = reviews
      ]_vars

\* ------------------------------------------- SpecConc: requests interleaved
\* A request in flight: where its handler stands, its user, event and status,
\* and whether the row it loaded has been deleted since (its pk is gone).
\* raced: its INSERT lost to the unique constraint (IntegrityError).
Idle == [pc |-> "idle", user |-> 0, event |-> 0, status |-> "none",
         stale |-> FALSE, raced |-> FALSE]

InFlight(pc, u, e, s) == [pc |-> pc, user |-> u, event |-> e, status |-> s,
                          stale |-> FALSE, raced |-> FALSE]

Done(r, op, code, error) ==
    /\ reqs' = [reqs EXCEPT ![r] = Idle]
    /\ resp' = Resp(op, reqs[r].user, reqs[r].event, reqs[r].status, code, error)

\* a step that sends no response
Goto(r, pc) ==
    /\ reqs' = [reqs EXCEPT ![r].pc = pc]
    /\ resp' = NoResp

\* a new request takes the lowest free slot (the slots are interchangeable)
FreeSlot(r) ==
    /\ reqs[r].pc = "idle"
    /\ \A q \in ReqIds : q < r => reqs[q].pc # "idle"

\* rsvp_to_event up to serializer.is_valid: the event lookup, the is_full and
\* is_past checks of the view and the validation of the status
rte_view(r, u, e, s) ==
    /\ FreeSlot(r)
    /\ Authenticated(u)
    /\ LET err == IF ~events[e].exists THEN "not_found"
                  ELSE IF is_full(rsvps, e) THEN "full"
                  ELSE IF is_past(e) THEN "past"
                  ELSE IF s \notin Statuses THEN "invalid"
                  ELSE "ok"
       IN  IF err = "ok"
           THEN /\ reqs' = [reqs EXCEPT ![r] = InFlight("get", u, e, s)]
                /\ resp' = NoResp
           ELSE /\ reqs' = reqs
                /\ resp' = Resp("rsvp_to_event", u, e, s,
                                IF err = "not_found" THEN 404 ELSE 400, err)
    /\ UNCHANGED <<now, users, events, rsvps, reviews, issued, spent, externals, categories>>

\* get_or_create: the SELECT for (user, event)
rte_get(r) ==
    /\ reqs[r].pc = "get"
    /\ LET n == RowCount(rsvps, reqs[r].user, reqs[r].event)
       IN  IF n = 0 THEN Goto(r, "ins_clean")
           ELSE IF n = 1 THEN Goto(r, "upd_clean")
           ELSE Done(r, "rsvp_to_event", 500, "multiple")
    /\ UNCHANGED <<now, users, events, rsvps, reviews, issued, spent, externals, categories>>

\* RSVP.save of the new row, first half: clean() reads the 'going' count
rte_ins_clean(r) ==
    /\ reqs[r].pc = "ins_clean"
    /\ LET c == RSVP_clean(rsvps, reqs[r].event, reqs[r].status)
       IN  IF c = "ok" THEN Goto(r, "insert")
           ELSE Done(r, "rsvp_to_event", 500, c)
    /\ UNCHANGED <<now, users, events, rsvps, reviews, issued, spent, externals, categories>>

\* RSVP.save of the new row, second half: the INSERT. On IntegrityError
\* get_or_create fetches the row that won and the serializer updates it.
rte_insert(r) ==
    /\ reqs[r].pc = "insert"
    /\ IF RSVP_unique_ok(rsvps, reqs[r].user, reqs[r].event)
       THEN /\ rsvps' = AddRow(rsvps, Row(reqs[r].user, reqs[r].event, reqs[r].status))
            /\ Done(r, "rsvp_to_event", 201, "none")
       ELSE /\ rsvps' = rsvps
            /\ reqs' = [reqs EXCEPT ![r].pc = "upd_clean", ![r].raced = TRUE]
            /\ resp' = NoResp
    /\ UNCHANGED <<now, users, events, reviews, issued, spent, externals, categories>>

\* rsvp.status = ...; rsvp.save(), first half: clean()
rte_upd_clean(r) ==
    /\ reqs[r].pc = "upd_clean"
    /\ LET c == RSVP_clean(rsvps, reqs[r].event, reqs[r].status)
       IN  IF c = "ok" THEN Goto(r, "update")
           ELSE Done(r, "rsvp_to_event", 500, c)
    /\ UNCHANGED <<now, users, events, rsvps, reviews, issued, spent, externals, categories>>

\* rsvp.save(), second half: UPDATE ... WHERE id = pk; when the row is gone
\* Model.save falls back to an INSERT of the row under its old pk.
rte_update(r) ==
    /\ reqs[r].pc = "update"
    /\ LET u == reqs[r].user
           e == reqs[r].event
           s == reqs[r].status
       IN  IF reqs[r].stale
           THEN IF RSVP_unique_ok(rsvps, u, e)
                THEN /\ rsvps' = AddRow(rsvps, Row(u, e, s))
                     /\ Done(r, "rsvp_to_event", 201, "none")
                ELSE /\ rsvps' = rsvps
                     /\ Done(r, "rsvp_to_event", 500, "integrity")
           ELSE /\ \E row \in BagToSet(rsvps) :
                      /\ row.user = u /\ row.event = e
                      /\ rsvps' = AddRow(DelRow(rsvps, row), Row(u, e, s))
                /\ Done(r, "rsvp_to_event", 201, "none")
    /\ UNCHANGED <<now, users, events, reviews, issued, spent, externals, categories>>

\* DELETE /rsvps/{id}/ while other requests are in flight: the requests that
\* hold the deleted row now hold a pk that no longer exists
conc_destroy(u, e) ==
    /\ Authenticated(u)
    /\ \E row \in BagToSet(rsvps) :
          /\ row.user = u /\ row.event = e
          /\ rsvps' = DelRow(rsvps, row)
    /\ reqs' = [r \in ReqIds |->
                  IF /\ reqs[r].pc \in {"upd_clean", "update"}
                     /\ reqs[r].user = u /\ reqs[r].event = e
                  THEN [reqs[r] EXCEPT !.stale = TRUE]
                  ELSE reqs[r]]
    /\ resp' = Resp("rsvp_destroy", u, e, "none", 204, "none")
    /\ UNCHANGED <<now, users, events, reviews, issued, spent, externals, categories>>

\* Review.save of a new row, first half: clean()
rv_clean(r, u, e) ==
    /\ FreeSlot(r)
    /\ users[u].exists /\ events[e].exists
    /\ LET c == Review_clean(rsvps, u, e)
       IN  IF c = "ok"
           THEN /\ reqs' = [reqs EXCEPT ![r] = InFlight("rv_insert", u, e, "none")]
                /\ resp' = NoResp
           ELSE /\ reqs' = reqs
                /\ resp' = Resp("Review_save", u, e, "none", 500, c)
    /\ UNCHANGED <<now, users, events, rsvps, reviews, issued, spent, externals, categories>>

\* Review.save of a new row, second half: the INSERT
rv_insert(r) ==
    /\ reqs[r].pc = "rv_insert"
    /\ IF Review_unique_ok(reviews, reqs[r].user, reqs[r].event)
       THEN /\ reviews' = AddRow(reviews, RevRow(reqs[r].user, reqs[r].event))
            /\ Done(r, "Review_save", 201, "none")
       ELSE /\ reviews' = reviews
            /\ Done(r, "Review_save", 500, "integrity")
    /\ UNCHANGED <<now, users, events, rsvps, issued, spent, externals, categories>>

conc_event_create(u, e, end, cap) ==
    /\ event_create(u, e, end, cap)

InitConc ==
    /\ now = 0
    /\ users = [u \in UserIds |-> User(u = 1)]
    /\ events = [e \in EventIds |-> NoEvent]
    /\ rsvps = EmptyBag
    /\ reviews = EmptyBag
    /\ reqs = [r \in ReqIds |-> Idle]
    /\ issued = {}
    /\ spent = NoneSpent
    /\ externals = [x \in ExternalIds |-> NoExternal]
    /\ categories = {}
    /\ resp = NoResp

NextConc ==
    \/ \E r \in ReqIds, u \in UserIds, e \in EventIds, s \in StatusInputs :
          rte_view(r, u, e, s)
    \/ \E r \in ReqIds : rte_get(r)
    \/ \E r \in ReqIds : rte_ins_clean(r)
    \/ \E r \in ReqIds : rte_insert(r)
    \/ \E r \in ReqIds : rte_upd_clean(r)
    \/ \E r \in ReqIds : rte_update(r)
    \/ \E u \in UserIds, e \in EventIds : conc_destroy(u, e)
    \/ \E r \in ReqIds, u \in UserIds, e \in EventIds : rv_clean(r, u, e)
    \/ \E r \in ReqIds : rv_insert(r)
    \/ \E u \in UserIds, e \in EventIds, end \in ConcEndTimes, cap \in Capacities :
          conc_event_create(u, e, end, cap)
    \/ Tick(ConcTimes)

SpecConc == InitConc /\ [][NextConc]_vars

\* C2: two users' concurrent 'going' requests for the last open slot never
\* leave the event with more 'going' rows than max_attendees.
C2_ConcurrentCapacity ==
    \A e \in EventIds :
        (events[e].exists /\ events[e].max_attendees # 0)
        => current_attendee_count(rsvps, e) <= events[e].max_attendees

\* C3: every step leaves at most one RSVP row and at most one Review row per
\* (user, event); an rsvp_to_event that succeeds for a user who had a row
\* leaves that one row, carrying the requested status.
C3_OneRowPerPair ==
    [][ /\ \A u \in UserIds, e \in EventIds :
             /\ RowCount(rsvps', u, e) <= 1
             /\ ReviewCount(reviews', u, e) <= 1
        /\ ( /\ resp' # resp /\ resp'.op = "rsvp_to_event" /\ resp'.code = 201
             /\ RowCount(rsvps, resp'.user, resp'.event) = 1 )
           => /\ RowCount(rsvps', resp'.user, resp'.event) = 1
              /\ CopiesIn(Row(resp'.user, resp'.event, resp'.req), rsvps') = 1
      ]_vars

\* two requests of one user for one event overlapped: one has inserted the
\* row, the other lost the INSERT to the unique constraint and is about to
\* update the row instead
C3_Witness ==
    \E r \in ReqIds :
        /\ reqs[r].pc = "update" /\ reqs[r].raced /\ ~reqs[r].stale
        /\ RowCount(rsvps, reqs[r].user, reqs[r].event) = 1
        /\ CopiesIn(Row(reqs[r].user, reqs[r].event, reqs[r].status), rsvps) = 0

\* ================================================================ accounts
\* hours=24 of the activation link, hours=1 of the reset link
VERIFY_HOURS == 24
RESET_HOURS == 1

\* default_token_generator.make_token(user): the timestamp and an HMAC over
\* the pk, the password field, last_login and the timestamp. Neither
\* is_active, email_verified nor any purpose enters it.
make_token(u) ==
    [uid |-> u, password |-> users[u].password,
     last_login |-> users[u].last_login, ts |-> now]

\* default_token_generator.check_token(user, token): the HMAC is recomputed
\* from the user's current fields. Its age test (PASSWORD_RESET_TIMEOUT, three
\* days) always passes here: the clock of the model stops at 25 hours.
check_token(u, tok) ==
    /\ tok.uid = u
    /\ tok.password = users[u].password
    /\ tok.last_login = users[u].last_login

\* a token string that no make_token call produced, and an absent parameter
GarbageToken == [uid |-> 0, password |-> -1, last_login |-> -1, ts |-> 0]
MissingToken == [uid |-> -1, password |-> -1, last_login |-> -1, ts |-> 0]

\* request parameters: uid 0 decodes to no account, -1 is absent; expires -1
\* is absent, -2 is not a number, 1000 a forged far future
UidInputs == AccountIds \cup {0, -1}
TokenInputs == {l.tok : l \in issued} \cup {GarbageToken, MissingToken}
ExpiresInputs == {l.expires : l \in issued} \cup {1000, -1, -2}

Link(tok, purpose, expires) == [tok |-> tok, purpose |-> purpose, expires |-> expires]

\* the mail reaches its reader; issued holds every link mailed so far, and
\* a request that would mail one more than MaxIssued is not taken
CanMail(l) == Cardinality(issued \cup {l}) <= MaxIssued
Mail(l) == issued \cup {l}

AuthResp(op, u, code, error) == [op |-> op, user |-> u, code |-> code, error |-> error]

Ledger == <<events, rsvps, reviews, reqs, externals, categories>>

\* ------------------------------------------------------------ register_view
\* The role fields a request body may carry as true, and those of them that
\* UserSerializer.Meta.fields lists: the serializer drops every other key.
TierFields == {"is_organizer", "is_staff", "is_superuser"}

UserSerializer_fields == {"is_organizer"}

\* UserSerializer.create: create_user (the post_save signal mails a link),
\* then is_active = False; register_view mails the same link again. flags are
\* the role fields the request body sets; sent tells whether .delay succeeds.
register_view(u, flags, sent) ==
    /\ ~users[u].exists
    /\ \A v \in AccountIds : v < u => users[v].exists
    /\ users' = [users EXCEPT ![u] =
                    [exists |-> TRUE, is_active |-> FALSE, email_verified |-> FALSE,
                     password |-> 1, hashes |-> 1, last_login |-> 0,
                     is_organizer |-> "is_organizer" \in flags \cap UserSerializer_fields,
                     is_staff |-> "is_staff" \in flags \cap UserSerializer_fields,
                     is_superuser |-> "is_superuser" \in flags \cap UserSerializer_fields]]
    /\ LET tok == [uid |-> u, password |-> 1, last_login |-> 0, ts |-> now]
       IN  IF sent
           THEN /\ CanMail(Link(tok, "verify", now + VERIFY_HOURS))
                /\ issued' = Mail(Link(tok, "verify", now + VERIFY_HOURS))
                /\ resp' = AuthResp("register", u, 201, "none")
           ELSE /\ issued' = issued
                /\ resp' = AuthResp("register", u, 500, "enqueue")
    /\ UNCHANGED <<now, spent>>
    /\ UNCHANGED Ledger

\* a registration whose username or email is taken: serializer errors
register_taken(u) ==
    /\ users[u].exists
    /\ resp' = AuthResp("register", u, 400, "taken")
    /\ UNCHANGED <<now, users, issued, spent>>
    /\ UNCHANGED Ledger

\* ---------------------------------------------------------------- login_view
\* django.contrib.auth.authenticate for username u and the password whose
\* hash is the p-th made for the account
authenticate(u, p) == users[u].exists /\ p >= 1 /\ users[u].password = p

LoginOutcome_no_active_check(u, p) ==
    IF p = 0 THEN "missing"
    ELSE IF ~authenticate(u, p) THEN "invalid"
    ELSE "ok"

LoginOutcome(u, p) ==
    IF p = 0 THEN "missing"
    ELSE IF ~authenticate(u, p) THEN "invalid"
    ELSE IF ~users[u].is_active THEN "inactive"
    ELSE "ok"

\* p = 0: the request carries no password
login_view(u, p) ==
    /\ LET o == LoginOutcome(u, p)
       IN  IF o = "ok"
           THEN /\ users[u].last_login < MaxLogins
                /\ users' = [users EXCEPT ![u].last_login = @ + 1]
                /\ resp' = AuthResp("login", u, 200, "none")
           ELSE /\ users' = users
                /\ resp' = AuthResp("login", u, IF o = "missing" THEN 400
                                    ELSE IF o = "invalid" THEN 401 ELSE 403, o)
    /\ UNCHANGED <<now, issued, spent>>
    /\ UNCHANGED Ledger

\* ------------------------------------------------------------- verify_email
Present(uid, tok, exp) == uid # -1 /\ tok # MissingToken /\ exp # -1

VerifyEmailOutcome_lookup_first(uid, tok, exp) ==
    IF ~Present(uid, tok, exp) THEN "missing"
    ELSE IF exp = -2 THEN "bad_expires"
    ELSE IF uid \notin AccountIds \/ ~users[uid].exists THEN "invalid_link"
    ELSE IF exp < now THEN "expired"
    ELSE IF ~check_token(uid, tok) THEN "invalid_token"
    ELSE "ok"

VerifyEmailOutcome(uid, tok, exp) ==
    IF ~Present(uid, tok, exp) THEN "missing"
    ELSE IF exp = -2 THEN "bad_expires"
    ELSE IF exp < now THEN "expired"
    ELSE IF uid \notin AccountIds \/ ~users[uid].exists THEN "invalid_link"
    ELSE IF ~check_token(uid, tok) THEN "invalid_token"
    ELSE "ok"

verify_email(uid, tok, exp) ==
    /\ LET o == VerifyEmailOutcome(uid, tok, exp)
       IN  IF o = "ok"
           THEN /\ users' = [users EXCEPT ![uid].email_verified = TRUE,
                                          ![uid].is_active = TRUE]
                /\ spent' = [spent EXCEPT !.verified = @ \cup {tok}]
                /\ resp' = AuthResp("verify_email", uid, 200, "none")
           ELSE /\ users' = users
                /\ spent' = spent
                /\ resp' = AuthResp("verify_email", uid, 400, o)
    /\ UNCHANGED <<now, issued>>
    /\ UNCHANGED Ledger

\* ------------------------------------------------- resend_verification_email
\* u = 0: the email belongs to no account
\* the status and the message of the answer; u is the account the email
\* belongs to, 0 when it belongs to none
ResendResponse(u, sent) ==
    IF u = 0 \/ ~users[u].exists THEN [code |-> 404, error |-> "no_user"]
    ELSE IF users[u].email_verified THEN [code |-> 200, error |-> "already_verified"]
    ELSE IF sent THEN [code |-> 200, error |-> "none"]
    ELSE [code |-> 500, error |-> "enqueue"]

resend_verification_email(u, sent) ==
    /\ IF ResendResponse(u, sent) = [code |-> 200, error |-> "none"]
       THEN /\ CanMail(Link(make_token(u), "verify", now + VERIFY_HOURS))
            /\ issued' = Mail(Link(make_token(u), "verify", now + VERIFY_HOURS))
       ELSE issued' = issued
    /\ resp' = AuthResp("resend", u, ResendResponse(u, sent).code,
                        ResendResponse(u, sent).error)
    /\ UNCHANGED <<now, users, spent>>
    /\ UNCHANGED Ledger

\* ---------------------------------------------------- reset_password_request
\* the status and the message of the answer; u is the account the email
\* belongs to, 0 when it belongs to none
ResetRequestResponse(u, sent) ==
    IF u = 0 \/ ~users[u].exists THEN [code |-> 200, error |-> "none"]
    ELSE IF sent THEN [code |-> 200, error |-> "none"]
    ELSE [code |-> 500, error |-> "enqueue"]

reset_password_request(u, sent) ==
    /\ IF u # 0 /\ users[u].exists /\ sent
       THEN /\ CanMail(Link(make_token(u), "reset", now + RESET_HOURS))
            /\ issued' = Mail(Link(make_token(u), "reset", now + RESET_HOURS))
       ELSE issued' = issued
    /\ resp' = AuthResp("reset_request", u, ResetRequestResponse(u, sent).code,
                        ResetRequestResponse(u, sent).error)
    /\ UNCHANGED <<now, users, spent>>
    /\ UNCHANGED Ledger

\* ----------------------------------------------------- reset_password_verify
ResetVerifyOutcome(uid, tok, exp) ==
    IF ~Present(uid, tok, exp) THEN "missing"
    ELSE IF exp = -2 THEN "bad_expires"
    ELSE IF exp < now THEN "expired"
    ELSE IF uid \notin AccountIds \/ ~users[uid].exists THEN "invalid_link"
    ELSE IF ~check_token(uid, tok) THEN "invalid_token"
    ELSE "ok"

reset_password_verify(uid, tok, exp) ==
    /\ LET o == ResetVerifyOutcome(uid, tok, exp)
       IN  resp' = AuthResp("reset_verify", uid, IF o = "ok" THEN 200 ELSE 400, o)
    /\ UNCHANGED <<now, users, issued, spent>>
    /\ UNCHANGED Ledger

\* ---------------------------------------------------- reset_password_confirm
\* pw is what the body says about the new password: "ok", "missing",
\* "mismatch" (confirm_password differs) or "weak" (validate_password raises)
PasswordInputs == {"ok", "missing", "mismatch", "weak"}

ResetConfirmOutcome(uid, tok, pw) ==
    IF uid = -1 \/ tok = MissingToken \/ pw = "missing" THEN "missing"
    ELSE IF pw = "mismatch" THEN "mismatch"
    ELSE IF pw = "weak" THEN "weak"
    ELSE IF uid \notin AccountIds \/ ~users[uid].exists THEN "invalid_user"
    ELSE IF ~check_token(uid, tok) THEN "invalid_token"
    ELSE "ok"

reset_password_confirm(uid, tok, pw) ==
    /\ LET o == ResetConfirmOutcome(uid, tok, pw)
       IN  IF o = "ok"
           THEN /\ users[uid].hashes < MaxHashes
                /\ users' = [users EXCEPT ![uid].password = users[uid].hashes + 1,
                                          ![uid].hashes = @ + 1]
                /\ spent' = [spent EXCEPT !.reset =
                                @ \cup {l.tok : l \in {k \in issued : k.tok.uid = uid}}]
                /\ resp' = AuthResp("reset_confirm", uid, 200, "none")
           ELSE /\ users' = users
                /\ spent' = spent
                /\ resp' = AuthResp("reset_confirm", uid, 400, o)
    /\ UNCHANGED <<now, issued>>
    /\ UNCHANGED Ledger

\* ---------------------------------------------------------- user_profile PUT
\* UserSerializer(user, data, partial=True): validate() reads
\* attrs['password'], so a body without password raises KeyError; with it,
\* ModelSerializer.update stores every field with setattr, the password text
\* included, unhashed.
user_profile_put(u, flags, pw) ==
    /\ Authenticated(u)
    /\ IF pw = "missing"
       THEN /\ users' = users
            /\ resp' = AuthResp("profile_put", u, 500, "key_error")
       ELSE IF pw # "ok"
       THEN /\ users' = users
            /\ resp' = AuthResp("profile_put", u, 400, pw)
       ELSE /\ users' = [users EXCEPT
                  ![u].password = 0,
                  ![u].is_organizer = @ \/ "is_organizer" \in flags \cap UserSerializer_fields,
                  ![u].is_staff = @ \/ "is_staff" \in flags \cap UserSerializer_fields,
                  ![u].is_superuser = @ \/ "is_superuser" \in flags \cap UserSerializer_fields]
            /\ resp' = AuthResp("profile_put", u, 200, "none")
    /\ UNCHANGED <<now, issued, spent>>
    /\ UNCHANGED Ledger

AuthTick ==
    /\ \E t \in AuthTimes : t > now /\ now' = t
    /\ resp' = AuthResp("none", 0, 0, "none")
    /\ UNCHANGED <<users, issued, spent>>
    /\ UNCHANGED Ledger

\* no account yet
InitAuth ==
    /\ now = 0
    /\ users = [u \in UserIds |-> NoUser]
    /\ events = [e \in EventIds |-> NoEvent]
    /\ rsvps = EmptyBag
    /\ reviews = EmptyBag
    /\ reqs = <<>>
    /\ issued = {}
    /\ spent = NoneSpent
    /\ externals = [x \in ExternalIds |-> NoExternal]
    /\ categories = {}
    /\ resp = AuthResp("none", 0, 0, "none")

NextAuth ==
    \/ \E u \in AccountIds, sent \in BOOLEAN : register_view(u, {}, sent)
    \/ \E u \in AccountIds : register_taken(u)
    \/ \E u \in AccountIds, p \in 0..MaxHashes : login_view(u, p)
    \/ \E uid \in UidInputs, tok \in TokenInputs, exp \in ExpiresInputs :
          verify_email(uid, tok, exp)
    \/ \E u \in AccountIds \cup {0}, sent \in BOOLEAN : resend_verification_email(u, sent)
    \/ \E u \in AccountIds \cup {0}, sent \in BOOLEAN : reset_password_request(u, sent)
    \/ \E uid \in UidInputs, tok \in TokenInputs, exp \in ExpiresInputs :
          reset_password_verify(uid, tok, exp)
    \/ \E uid \in UidInputs, tok \in TokenInputs, pw \in PasswordInputs :
          reset_password_confirm(uid, tok, pw)
    \/ \E u \in AccountIds, pw \in PasswordInputs : user_profile_put(u, {}, pw)
    \/ AuthTick

SpecAuth == InitAuth /\ [][NextAuth]_vars

\* ------------------------------------------------------------------ SpecTier
\* The requests by which an account comes to exist, logs in and edits its
\* profile, with the role fields a body may carry. No account is staff or
\* superuser: every request is one a non-admin user can send.
NextTier ==
    \/ \E u \in AccountIds, flags \in SUBSET TierFields, sent \in BOOLEAN :
          register_view(u, flags, sent)
    \/ \E u \in AccountIds : register_taken(u)
    \/ \E u \in AccountIds, p \in 0..MaxHashes : login_view(u, p)
    \/ \E uid \in UidInputs, tok \in TokenInputs, exp \in ExpiresInputs :
          verify_email(uid, tok, exp)
    \/ \E u \in AccountIds, flags \in SUBSET TierFields, pw \in PasswordInputs :
          user_profile_put(u, flags, pw)
    \/ AuthTick

SpecTier == InitAuth /\ [][NextTier]_vars

\* ------------------------------------------------------- claims on SpecAuth
\* the step answers a request to one of the endpoints ops
Answers(ops) == resp'.op \in ops

\* C5: once verify_email has succeeded with a token, a later verify_email
\* request presenting that token for the same user is rejected, also when
\* the expires parameter is still in the future.
C5_VerifyTokenSingleUse ==
    [][ Answers({"verify_email"}) =>
          \A tok \in spent.verified, exp \in ExpiresInputs :
              verify_email(tok.uid, tok, exp) => resp'.code # 200 ]_vars

\* C6: in verify_email and reset_password_verify a request with all three
\* parameters whose expires is a time before now gets the expiry error,
\* whatever uid and token are, and no user record changes.
C6_ExpiryFirst ==
    [][ Answers({"verify_email", "reset_verify"}) =>
          \A tok \in TokenInputs, exp \in ExpiresInputs :
              ( /\ Present(resp'.user, tok, exp) /\ exp >= 0 /\ exp < now
                /\ \/ verify_email(resp'.user, tok, exp)
                   \/ reset_password_verify(resp'.user, tok, exp) )
              => /\ resp'.code = 400 /\ resp'.error = "expired"
                 /\ users' = users ]_vars

\* an expired link was presented with a uid naming no account, and the
\* answer was the expiry error
C6_Witness ==
    /\ resp.op \in {"verify_email", "reset_verify"}
    /\ resp.error = "expired"
    /\ resp.user = 0
    /\ \E l \in issued : l.expires < now

\* C7: reset_password_confirm never changes a password when the token it is
\* given is that of a reset link whose expiry time has passed.
C7_ConfirmChecksExpiry ==
    [][ Answers({"reset_confirm"}) =>
          \A l \in issued, pw \in PasswordInputs :
              ( /\ l.purpose = "reset" /\ l.expires < now
                /\ reset_password_confirm(resp'.user, l.tok, pw) )
              => users' = users ]_vars

\* the token of link l was mailed for that link's purpose only
OnlyFor(l) == \A k \in issued : k.tok = l.tok => k.purpose = l.purpose

\* C8: a token mailed for email verification is never accepted by
\* reset_password_verify or reset_password_confirm, and a token mailed by
\* reset_password_request is never accepted by verify_email.
C8_PurposeScoped ==
    [][ (Answers({"verify_email", "reset_verify", "reset_confirm"}) /\ resp'.code = 200) =>
          \A l \in issued :
              /\ (l.purpose = "verify" /\ OnlyFor(l))
                 => /\ \A exp \in ExpiresInputs :
                          ~reset_password_verify(resp'.user, l.tok, exp)
                    /\ \A pw \in PasswordInputs :
                          ~reset_password_confirm(resp'.user, l.tok, pw)
              /\ (l.purpose = "reset" /\ OnlyFor(l))
                 => \A exp \in ExpiresInputs :
                       ~verify_email(resp'.user, l.tok, exp) ]_vars

\* C9: after reset_password_confirm changed the password of a user, every
\* token mailed to that user before the change is rejected by
\* reset_password_verify and by reset_password_confirm.
C9_ResetInvalidatesTokens ==
    [][ (Answers({"reset_verify", "reset_confirm"}) /\ resp'.code = 200) =>
          \A tok \in spent.reset :
              /\ \A exp \in ExpiresInputs :
                    ~reset_password_verify(tok.uid, tok, exp)
              /\ \A pw \in PasswordInputs :
                    ~reset_password_confirm(tok.uid, tok, pw) ]_vars

C22_ResetRequestUniform ==
    \A u \in AccountIds, sent \in BOOLEAN :
        users[u].exists => ResetRequestResponse(u, sent) = ResetRequestResponse(0, sent)

\* C23: resend_verification_email answers with the same status and message
\* whether or not the email belongs to an account, verified or not.
C23_ResendUniform ==
    \A u \in AccountIds, sent \in BOOLEAN :
        users[u].exists => ResendResponse(u, sent) = ResendResponse(0, sent)

\* C24: when the .delay call raises, the request still gets its normal
\* answer: register_view 201 with the user stored, reset_password_request
\* and resend_verification_email 200.
C24_EnqueueFailureTolerated ==
    [][ Answers({"register", "resend", "reset_request"}) =>
          \A u \in AccountIds :
              /\ register_view(u, {}, FALSE) => (resp'.code = 201 /\ users'[u].exists)
              /\ reset_password_request(u, FALSE) => resp'.code = 200
              /\ resend_verification_email(u, FALSE) => resp'.code = 200 ]_vars

\* C30: no request to the accounts API raises a privilege flag: register_view
\* creates no account with is_organizer, is_staff or is_superuser set, and
\* user_profile PUT turns none of them from false to true.
C30_NoSelfPromotion ==
    [][ \A u \in AccountIds :
          /\ users'[u].is_organizer => users[u].is_organizer
          /\ users'[u].is_staff => users[u].is_staff
          /\ users'[u].is_superuser => users[u].is_superuser ]_vars

\* ------------------------------------------- SpecEvents: roles and events
\* The event, organizer, admin and external-event endpoints, one whole
\* request per step. The requester u is a user id, or 0 for AnonymousUser.
\* The clock stands at 0: every event time below is in the future.
StartTimes == {1, 2}
EventEndTimes == {1, 3}
\* max_attendees of a request body: 0 is the field left out (None)
EventCaps == {0}
\* what rsvp_to_event is sent in this specification
EventStatuses == {"going", "interested"}

Role(organizer, staff, super) ==
    [User(organizer) EXCEPT !.is_staff = staff, !.is_superuser = super]

\* plain user, organizer, staff, staff who is an organizer, superuser only
Roles == {Role(FALSE, FALSE, FALSE), Role(TRUE, FALSE, FALSE), Role(FALSE, TRUE, FALSE),
          Role(TRUE, TRUE, FALSE), Role(FALSE, FALSE, TRUE)}

Requesters == UserIds \cup {0}

\* request.user.is_authenticated
is_authenticated(u) == u # 0 /\ Authenticated(u)

\* events/permissions.py, for an unsafe method
IsOrganizerOrReadOnly(u) == is_authenticated(u) /\ users[u].is_organizer

IsEventOwner_any(u, e) == TRUE

IsEventOwnerOrReadOnly(u, e) == events[e].created_by = u

IsAdminOrOrganizer(u) ==
    is_authenticated(u) /\ (users[u].is_staff \/ users[u].is_superuser
                              \/ users[u].is_organizer)

IsAdminUser(u) ==
    is_authenticated(u) /\ (users[u].is_staff \/ users[u].is_superuser)

IsOrganizer(u) == is_authenticated(u) /\ users[u].is_organizer

\* the body of an error response, by status code
Err(code) ==
    CASE code = 401 -> "not_authenticated"
      [] code = 403 -> "forbidden"
      [] code = 404 -> "not_found"
      [] code = 400 -> "invalid"
      [] OTHER -> "none"

\* on_delete=CASCADE of RSVP.event and Review.event
Cascade(b, e) == [row \in {r \in BagToSet(b) : r.event # e} |-> b[row]]

\* on_delete=SET_NULL of ExternalEvent.imported_event
SetNull(ext, e) ==
    [x \in ExternalIds |->
        IF ext[x].imported_event = e THEN [ext[x] EXCEPT !.imported_event = 0]
        ELSE ext[x]]

\* the pk the database gives the next events_event row
NextEventId == CHOOSE e \in EventIds : ~events[e].exists

HasFreeEventId == \E e \in EventIds : ~events[e].exists

\* EventCreateSerializer.Meta.fields, of the keys the model follows: a key of
\* the body that is not among them never reaches validated_data
EventCreateSerializer_fields_with_owner ==
    {"start_time", "end_time", "max_attendees", "created_by"}

EventCreateSerializer_fields == {"start_time", "end_time", "max_attendees"}

\* created_by after EventCreateSerializer.update: by is the created_by the
\* body carries (0: none); setattr runs over validated_data only
UpdatedOwner(old, by) ==
    IF by # 0 /\ "created_by" \in EventCreateSerializer_fields THEN by ELSE old

\* what the response record keeps of the body: whether it named another
\* user than the requester as created_by
BodyOwner(u, by) == IF by # 0 /\ by # u THEN "created_by" ELSE "none"

\* APIView.check_permissions of EventViewSet for create, update,
\* partial_update, destroy: IsAuthenticated, IsOrganizerOrReadOnly
\* (IsEventOwnerOrReadOnly has no has_permission of its own)
EventViewSet_check_permissions(u) ==
    IF ~is_authenticated(u) THEN 401
    ELSE IF ~IsOrganizerOrReadOnly(u) THEN 403
    ELSE 200

\* get_object: the lookup, then check_object_permissions
EventViewSet_get_object(u, e) ==
    IF EventViewSet_check_permissions(u) # 200 THEN EventViewSet_check_permissions(u)
    ELSE IF ~events[e].exists THEN 404
    ELSE IF ~IsEventOwnerOrReadOnly(u, e) THEN 403
    ELSE 200

\* POST /events/: EventCreateSerializer.create. valid is is_valid() on the
\* body; the serializer and the model compare start_time and end_time nowhere.
EventViewSet_create(u, start, end, cap, valid) ==
    /\ LET c == EventViewSet_check_permissions(u)
       IN  IF c # 200
           THEN /\ events' = events
                /\ resp' = Resp("EventViewSet_create", u, 0, "none", c, Err(c))
           ELSE IF ~valid
           THEN /\ events' = events
                /\ resp' = Resp("EventViewSet_create", u, 0, "none", 400, Err(400))
           ELSE /\ HasFreeEventId
                /\ events' = [events EXCEPT ![NextEventId] =
                                 [exists |-> TRUE, created_by |-> u,
                                  start_time |-> start, end_time |-> end,
                                  max_attendees |-> cap]]
                /\ resp' = Resp("EventViewSet_create", u, NextEventId, "none", 201, "none")
    /\ UNCHANGED <<now, users, rsvps, reviews, reqs, issued, spent, externals, categories>>

\* PUT /events/{e}/: EventCreateSerializer.update
EventViewSet_update(u, e, start, end, cap, by, valid) ==
    /\ LET c == EventViewSet_get_object(u, e)
       IN  IF c # 200
           THEN /\ events' = events
                /\ resp' = Resp("EventViewSet_update", u, e, "none", c, Err(c))
           ELSE IF ~valid
           THEN /\ events' = events
                /\ resp' = Resp("EventViewSet_update", u, e, "none", 400, Err(400))
           ELSE /\ events' = [events EXCEPT ![e].start_time = start,
                                            ![e].end_time = end,
                                            ![e].max_attendees = cap,
                                            ![e].created_by = UpdatedOwner(@, by)]
                /\ resp' = Resp("EventViewSet_update", u, e, BodyOwner(u, by), 200, "none")
    /\ UNCHANGED <<now, users, rsvps, reviews, reqs, issued, spent, externals, categories>>

\* PATCH /events/{e}/: the same with partial=True; fields are the keys the
\* body carries
EventViewSet_partial_update(u, e, fields, start, end, by) ==
    /\ LET c == EventViewSet_get_object(u, e)
       IN  IF c # 200
           THEN /\ events' = events
                /\ resp' = Resp("EventViewSet_partial_update", u, e, "none", c, Err(c))
           ELSE /\ events' = [events EXCEPT
                                 ![e].start_time =
                                     IF "start_time" \in fields THEN start ELSE @,
                                 ![e].end_time =
                                     IF "end_time" \in fields THEN end ELSE @,
                                 ![e].created_by = UpdatedOwner(@, by)]
                /\ resp' = Resp("EventViewSet_partial_update", u, e, BodyOwner(u, by),
                                200, "none")
    /\ UNCHANGED <<now, users, rsvps, reviews, reqs, issued, spent, externals, categories>>

\* DELETE /events/{e}/: the row goes, and with it its RSVPs and reviews
EventViewSet_destroy(u, e) ==
    /\ LET c == EventViewSet_get_object(u, e)
       IN  IF c # 200
           THEN /\ UNCHANGED <<events, rsvps, reviews, externals>>
                /\ resp' = Resp("EventViewSet_destroy", u, e, "none", c, Err(c))
           ELSE /\ events' = [events EXCEPT ![e] = NoEvent]
                /\ rsvps' = Cascade(rsvps, e)
                /\ reviews' = Cascade(reviews, e)
                /\ externals' = SetNull(externals, e)
                /\ resp' = Resp("EventViewSet_destroy", u, e, "none", 204, "none")
    /\ UNCHANGED <<now, users, reqs, issued, spent, categories>>

\* ------------------------------------------------- OrganizerEventViewSet
\* permission_classes = [IsOrganizer]: a request without credentials is
\* NotAuthenticated, any other refused one PermissionDenied
OrganizerEventViewSet_check_permissions(u) ==
    IF IsOrganizer(u) THEN 200
    ELSE IF ~is_authenticated(u) THEN 401
    ELSE 403

\* get_object over get_queryset, which holds the requester's own events
OrganizerEventViewSet_get_object(u, e) ==
    IF OrganizerEventViewSet_check_permissions(u) # 200
    THEN OrganizerEventViewSet_check_permissions(u)
    ELSE IF ~(events[e].exists /\ events[e].created_by = u) THEN 404
    ELSE 200

OrganizerEventViewSet_create(u, start, end, cap, valid) ==
    /\ LET c == OrganizerEventViewSet_check_permissions(u)
       IN  IF c # 200
           THEN /\ events' = events
                /\ resp' = Resp("OrganizerEventViewSet_create", u, 0, "none", c, Err(c))
           ELSE IF ~valid
           THEN /\ events' = events
                /\ resp' = Resp("OrganizerEventViewSet_create", u, 0, "none", 400, Err(400))
           ELSE /\ HasFreeEventId
                /\ events' = [events EXCEPT ![NextEventId] =
                                 [exists |-> TRUE, created_by |-> u,
                                  start_time |-> start, end_time |-> end,
                                  max_attendees |-> cap]]
                /\ resp' = Resp("OrganizerEventViewSet_create", u, NextEventId, "none",
                                201, "none")
    /\ UNCHANGED <<now, users, rsvps, reviews, reqs, issued, spent, externals, categories>>

OrganizerEventViewSet_update(u, e, start, end, cap, by, valid) ==
    /\ LET c == OrganizerEventViewSet_get_object(u, e)
       IN  IF c # 200
           THEN /\ events' = events
                /\ resp' = Resp("OrganizerEventViewSet_update", u, e, "none", c, Err(c))
           ELSE IF ~valid
           THEN /\ events' = events
                /\ resp' = Resp("OrganizerEventViewSet_update", u, e, "none", 400, Err(400))
           ELSE /\ events' = [events EXCEPT ![e].start_time = start,
                                            ![e].end_time = end,
                                            ![e].max_attendees = cap,
                                            ![e].created_by = UpdatedOwner(@, by)]
                /\ resp' = Resp("OrganizerEventViewSet_update", u, e, BodyOwner(u, by), 200, "none")
    /\ UNCHANGED <<now, users, rsvps, reviews, reqs, issued, spent, externals, categories>>

OrganizerEventViewSet_destroy(u, e) ==
    /\ LET c == OrganizerEventViewSet_get_object(u, e)
       IN  IF c # 200
           THEN /\ UNCHANGED <<events, rsvps, reviews, externals>>
                /\ resp' = Resp("OrganizerEventViewSet_destroy", u, e, "none", c, Err(c))
           ELSE /\ events' = [events EXCEPT ![e] = NoEvent]
                /\ rsvps' = Cascade(rsvps, e)
                /\ reviews' = Cascade(reviews, e)
                /\ externals' = SetNull(externals, e)
                /\ resp' = Resp("OrganizerEventViewSet_destroy", u, e, "none", 204, "none")
    /\ UNCHANGED <<now, users, reqs, issued, spent, categories>>

\* GET /organizer/events/{e}/, .../event_insights/, .../attendee_list/:
\* get_object, and in the two actions a test of event.created_by against
\* the requester after it
OrganizerDetailReads == {"OrganizerEventViewSet_retrieve", "event_insights",
                         "attendee_list"}

OrganizerDetailOutcome(u, e, op) ==
    IF OrganizerEventViewSet_get_object(u, e) # 200
    THEN OrganizerEventViewSet_get_object(u, e)
    ELSE IF op # "OrganizerEventViewSet_retrieve" /\ events[e].created_by # u THEN 403
    ELSE 200

event_insights(u, e, op) ==
    /\ LET c == OrganizerDetailOutcome(u, e, op)
       IN  resp' = Resp(op, u, e, "none", c, Err(c))
    /\ UNCHANGED <<now, users, events, rsvps, reviews, reqs, issued, spent, externals,
                   categories>>

\* GET /organizer/events/organizer_dashboard/ and the other read-only actions
OrganizerReads == {"organizer_dashboard", "OrganizerEventViewSet_list"}

organizer_dashboard(u, op) ==
    /\ LET c == OrganizerEventViewSet_check_permissions(u)
       IN  resp' = Resp(op, u, 0, "none", c, Err(c))
    /\ UNCHANGED <<now, users, events, rsvps, reviews, reqs, issued, spent, externals,
                   categories>>

\* --------------------------------------------------------- admin endpoints
\* permission_classes = [IsAdminUser] on the three admin viewsets
Admin_check_permissions(u) ==
    IF IsAdminUser(u) THEN 200
    ELSE IF ~is_authenticated(u) THEN 401
    ELSE 403

\* the read-only admin actions
AdminReads == {"dashboard_stats", "AdminEventViewSet_list", "AdminTagViewSet_list"}

dashboard_stats(u, op) ==
    /\ LET c == Admin_check_permissions(u)
       IN  resp' = Resp(op, u, 0, "none", c, Err(c))
    /\ UNCHANGED <<now, users, events, rsvps, reviews, reqs, issued, spent, externals,
                   categories>>

\* POST /admin/categories/: c stands for the (unique) name
AdminCategoryViewSet_create(u, c) ==
    /\ LET p == Admin_check_permissions(u)
       IN  IF p # 200
           THEN /\ categories' = categories
                /\ resp' = Resp("AdminCategoryViewSet_create", u, 0, "none", p, Err(p))
           ELSE IF c \in categories
           THEN /\ categories' = categories
                /\ resp' = Resp("AdminCategoryViewSet_create", u, 0, "none", 400, Err(400))
           ELSE /\ categories' = categories \cup {c}
                /\ resp' = Resp("AdminCategoryViewSet_create", u, 0, "none", 201, "none")
    /\ UNCHANGED <<now, users, events, rsvps, reviews, reqs, issued, spent, externals>>

\* DELETE /admin/categories/{c}/
AdminCategoryViewSet_destroy(u, c) ==
    /\ LET p == Admin_check_permissions(u)
       IN  IF p # 200
           THEN /\ categories' = categories
                /\ resp' = Resp("AdminCategoryViewSet_destroy", u, 0, "none", p, Err(p))
           ELSE IF c \notin categories
           THEN /\ categories' = categories
                /\ resp' = Resp("AdminCategoryViewSet_destroy", u, 0, "none", 404, Err(404))
           ELSE /\ categories' = categories \ {c}
                /\ resp' = Resp("AdminCategoryViewSet_destroy", u, 0, "none", 204, "none")
    /\ UNCHANGED <<now, users, events, rsvps, reviews, reqs, issued, spent, externals>>

\* ------------------------------------------- ExternalEventViewSet.import_event
\* The answer of POST /external-events/{x}/import_event/ before anything is
\* written: permission_classes = [IsAuthenticated], get_object, the
\* is_imported test, ExternalEventImportSerializer.is_valid()
ImportOutcome_no_flag(u, x, valid) ==
    IF ~is_authenticated(u) THEN [code |-> 401, error |-> "not_authenticated"]
    ELSE IF ~externals[x].exists THEN [code |-> 404, error |-> "not_found"]
    ELSE IF ~valid THEN [code |-> 400, error |-> "invalid"]
    ELSE [code |-> 201, error |-> "none"]

ImportOutcome(u, x, valid) ==
    IF ~is_authenticated(u) THEN [code |-> 401, error |-> "not_authenticated"]
    ELSE IF ~externals[x].exists THEN [code |-> 404, error |-> "not_found"]
    ELSE IF externals[x].is_imported THEN [code |-> 400, error |-> "already_imported"]
    ELSE IF ~valid THEN [code |-> 400, error |-> "invalid"]
    ELSE [code |-> 201, error |-> "none"]

\* 'end_time': external_event.end_time or external_event.start_time
ImportedEvent(u, ext, cap) ==
    [exists |-> TRUE, created_by |-> u, start_time |-> ext.start_time,
     end_time |-> IF ext.end_time = 0 THEN ext.start_time ELSE ext.end_time,
     max_attendees |-> cap]

\* the response carries the pk of the URL in its event field
import_event(u, x, cap, valid) ==
    /\ LET r == ImportOutcome(u, x, valid)
       IN  IF r.code # 201
           THEN /\ UNCHANGED <<events, externals>>
                /\ resp' = Resp("import_event", u, x, "none", r.code, r.error)
           ELSE /\ HasFreeEventId
                /\ events' = [events EXCEPT ![NextEventId] =
                                 ImportedEvent(u, externals[x], cap)]
                /\ externals' = [externals EXCEPT ![x].is_imported = TRUE,
                                                  ![x].imported_event = NextEventId]
                /\ resp' = Resp("import_event", u, x, "none", 201, "none")
    /\ UNCHANGED <<now, users, rsvps, reviews, reqs, issued, spent, categories>>

\* ------------------------------------------------- EventViewSet.attendees
\* event.rsvps.all() / event.rsvps.filter(status='going')
EventRsvps(rs, e) == {row \in BagToSet(rs) : row.event = e}

GoingRsvps(rs, e) == {row \in EventRsvps(rs, e) : row.status = "going"}

\* the queryset the view picks for the requester
AttendeeRows(rs, u, e) ==
    IF users[u].is_staff \/ users[u].is_superuser THEN EventRsvps(rs, e)
    ELSE IF users[u].is_organizer /\ events[e].created_by = u THEN EventRsvps(rs, e)
    ELSE GoingRsvps(rs, e)

\* 'notes': rsvp.notes if ... else None. RSVP has no field or attribute
\* notes, so reading it raises AttributeError; it is read once per row, and
\* only for these requesters.
ReadsNotes(u, e) ==
    users[u].is_staff \/ (users[u].is_organizer /\ events[e].created_by = u)

AttendeesResult(rs, u, e) ==
    IF ~is_authenticated(u)
    THEN [code |-> 401, error |-> "not_authenticated", rows |-> {}]
    ELSE IF ~events[e].exists
    THEN [code |-> 404, error |-> "not_found", rows |-> {}]
    ELSE IF ReadsNotes(u, e) /\ AttendeeRows(rs, u, e) # {}
    THEN [code |-> 500, error |-> "attribute_error", rows |-> {}]
    ELSE [code |-> 200, error |-> "none", rows |-> AttendeeRows(rs, u, e)]

attendees(u, e) ==
    /\ LET r == AttendeesResult(rsvps, u, e)
       IN  resp' = [Resp("attendees", u, e, "none", r.code, r.error)
                       EXCEPT !.rows = r.rows]
    /\ UNCHANGED <<now, users, events, rsvps, reviews, reqs, issued, spent, externals,
                   categories>>

\* ---------------------------------------------------------------- SpecEvents
\* ExternalEvent rows are entered through the admin site, whose form runs
\* ExternalEvent.clean: end_time is NULL (0) or after start_time
ExternalRows ==
    {[exists |-> TRUE, start_time |-> 1, end_time |-> end,
      is_imported |-> FALSE, imported_event |-> 0] : end \in {0, 3}}

\* the accounts, each in one of the roles
InitUsers == users \in [UserIds -> Roles]

InitEvents ==
    /\ now = 0
    /\ InitUsers
    /\ events = [e \in EventIds |-> NoEvent]
    /\ rsvps = EmptyBag
    /\ reviews = EmptyBag
    /\ reqs = [r \in ReqIds |-> Idle]
    /\ issued = {}
    /\ spent = NoneSpent
    /\ externals \in [ExternalIds -> ExternalRows]
    /\ categories = {}
    /\ resp = NoResp

NextEvents ==
    \/ \E u \in Requesters, start \in StartTimes, end \in EventEndTimes,
          cap \in EventCaps, valid \in BOOLEAN :
          \/ EventViewSet_create(u, start, end, cap, valid)
          \/ OrganizerEventViewSet_create(u, start, end, cap, valid)
          \/ \E e \in EventIds, by \in Requesters :
                \/ EventViewSet_update(u, e, start, end, cap, by, valid)
                \/ OrganizerEventViewSet_update(u, e, start, end, cap, by, valid)
    \/ \E u \in Requesters, e \in EventIds, start \in StartTimes, end \in EventEndTimes,
          fields \in SUBSET {"start_time", "end_time"}, by \in Requesters :
          EventViewSet_partial_update(u, e, fields, start, end, by)
    \/ \E u \in Requesters, e \in EventIds : EventViewSet_destroy(u, e)
    \/ \E u \in Requesters, e \in EventIds : OrganizerEventViewSet_destroy(u, e)
    \/ \E u \in Requesters, x \in ExternalIds, cap \in EventCaps, valid \in BOOLEAN :
          import_event(u, x, cap, valid)

SpecEvents == InitEvents /\ [][NextEvents]_vars

\* ---------------------------------------------------------------- SpecAccess
\* Who is shown what: the attendee list, the admin and the organizer
\* endpoints. Events are made with one valid body.
InitAccess ==
    /\ now = 0
    /\ InitUsers
    /\ events = [e \in EventIds |-> NoEvent]
    /\ rsvps = EmptyBag
    /\ reviews = EmptyBag
    /\ reqs = [r \in ReqIds |-> Idle]
    /\ issued = {}
    /\ spent = NoneSpent
    /\ externals = [x \in ExternalIds |-> NoExternal]
    /\ categories = {}
    /\ resp = NoResp

NextAccess ==
    \/ \E u \in Requesters : OrganizerEventViewSet_create(u, 1, 3, 0, TRUE)
    \/ \E u \in Requesters, e \in EventIds : OrganizerEventViewSet_destroy(u, e)
    \/ \E u \in Requesters, e \in EventIds :
          OrganizerEventViewSet_update(u, e, 1, 3, 0, 0, TRUE)
    \/ \E u \in Requesters, e \in EventIds, op \in OrganizerDetailReads :
          event_insights(u, e, op)
    \/ \E u \in Requesters, op \in OrganizerReads : organizer_dashboard(u, op)
    \/ \E u \in Requesters, op \in AdminReads : dashboard_stats(u, op)
    \/ \E u \in Requesters, c \in CategoryIds : AdminCategoryViewSet_create(u, c)
    \/ \E u \in Requesters, c \in CategoryIds : AdminCategoryViewSet_destroy(u, c)
    \/ \E u \in Requesters, e \in EventIds : attendees(u, e)
    \/ \E u \in UserIds, e \in EventIds, s \in EventStatuses : rsvp_to_event(u, e, s)

SpecAccess == InitAccess /\ [][NextAccess]_vars

\* ------------------------------------------------------ claims on SpecEvents
\* the EventViewSet actions that address one event
EventDetailWrites == {"EventViewSet_update", "EventViewSet_partial_update",
                      "EventViewSet_destroy"}

C12_AdminMayWriteAnyEvent ==
    [][ ((resp'.op = "EventViewSet_create"
            \/ (resp'.op \in EventDetailWrites /\ events[resp'.event].exists))
         /\ IsAdminUser(resp'.user)) => resp'.code # 403 ]_vars

\* C13: whenever a step creates an Event row, its created_by is an
\* organizer, a staff user or a superuser.
C13_CreatorsAreOrganizersOrAdmins ==
    [][ \A e \in EventIds :
          (~events[e].exists /\ events'[e].exists) =>
              \/ users[events'[e].created_by].is_organizer
              \/ users[events'[e].created_by].is_staff
              \/ users[events'[e].created_by].is_superuser ]_vars

\* C17: every Event row has end_time > start_time.
C17_EndAfterStart ==
    \A e \in EventIds : events[e].exists => events[e].end_time > events[e].start_time

\* C18: import_event requests one at a time: a request on a record that is
\* already imported is answered with an error, creates no Event and leaves
\* the record as it is; a successful import is of a record not yet imported,
\* creates exactly one Event and sets is_imported and imported_event to it.
C18_ImportOnce ==
    [][ (resp'.op = "import_event" /\ is_authenticated(resp'.user)) =>
          /\ externals[resp'.event].is_imported =>
                 /\ resp'.code >= 400
                 /\ UNCHANGED <<events, externals>>
          /\ resp'.code = 201 =>
                 /\ ~externals[resp'.event].is_imported
                 /\ externals'[resp'.event].is_imported
                 /\ Cardinality({e \in EventIds : events'[e] # events[e]}) = 1
                 /\ \A e \in EventIds :
                        events'[e] # events[e] =>
                            /\ ~events[e].exists /\ events'[e].exists
                            /\ externals'[resp'.event].imported_event = e ]_vars

C18_Witness ==
    /\ resp.op = "import_event"
    /\ resp.code = 400
    /\ resp.error = "already_imported"
    /\ externals[resp.event].is_imported

\* the actions that update an event
EventUpdates == {"EventViewSet_update", "EventViewSet_partial_update",
                 "OrganizerEventViewSet_update"}

\* C25: created_by is the requester at creation and no update or partial
\* update through EventViewSet or OrganizerEventViewSet changes it, whatever
\* the body carries.
C25_OwnerImmutable ==
    [][ /\ resp'.op \in EventUpdates =>
               \A e \in EventIds :
                   events[e].exists => events'[e].created_by = events[e].created_by
        /\ (resp'.op \in {"EventViewSet_create", "OrganizerEventViewSet_create"}
              /\ resp'.code = 201) =>
               events'[resp'.event].created_by = resp'.user ]_vars

C25_Witness ==
    /\ resp.op \in EventUpdates
    /\ resp.code = 200
    /\ resp.req = "created_by"
    /\ events[resp.event].created_by = resp.user

\* C29: an ExternalEvent has is_imported set exactly when imported_event
\* points to an existing Event, also after that Event was deleted; so an
\* import of a record whose Event is gone is not refused as already imported.
C29_ImportedIffLinked ==
    /\ [](\A x \in ExternalIds :
            externals[x].exists =>
                (externals[x].is_imported <=>
                    (externals[x].imported_event # 0
                       /\ events[externals[x].imported_event].exists)))
    /\ [][ (resp'.op = "import_event" /\ is_authenticated(resp'.user)
              /\ externals[resp'.event].imported_event = 0) =>
               resp'.error # "already_imported" ]_vars

\* ------------------------------------------------------ claims on SpecAccess
\* the organizer actions that address one event
OrganizerDetailOps == OrganizerDetailReads \cup {"OrganizerEventViewSet_update",
                                                 "OrganizerEventViewSet_destroy"}

\* C26: on the organizer endpoints an organizer who asks for an existing
\* event of another user (retrieve, update, delete, event_insights,
\* attendee_list) is answered 403, and 404 is answered only when no event
\* has the id.
C26_ForbiddenNotConflated ==
    [][ (resp'.op \in OrganizerDetailOps /\ IsOrganizer(resp'.user)) =>
          /\ (events[resp'.event].exists
                /\ events[resp'.event].created_by # resp'.user) => resp'.code = 403
          /\ resp'.code = 404 => ~events[resp'.event].exists ]_vars

\* C15: EventViewSet.attendees refuses a request without credentials; an
\* authenticated requester who is neither an admin nor the organizer owning
\* the event is shown exactly the 'going' RSVPs of the event; an admin and
\* the owning organizer are answered 200 with every RSVP of the event.
C15_AttendeeListByRole ==
    [][ resp'.op = "attendees" =>
          /\ resp'.user = 0 => (resp'.code \in {401, 403} /\ resp'.rows = {})
          /\ (resp'.user # 0 /\ events[resp'.event].exists) =>
                 /\ resp'.code = 200
                 /\ resp'.rows =
                      IF IsAdminUser(resp'.user)
                           \/ (users[resp'.user].is_organizer
                                 /\ events[resp'.event].created_by = resp'.user)
                      THEN EventRsvps(rsvps, resp'.event)
                      ELSE GoingRsvps(rsvps, resp'.event) ]_vars

AdminOps == AdminReads \cup {"AdminCategoryViewSet_create", "AdminCategoryViewSet_destroy"}
OrganizerOps == OrganizerReads \cup {"OrganizerEventViewSet_create",
                                     "OrganizerEventViewSet_update",
                                     "OrganizerEventViewSet_destroy"}

\* C16: an admin endpoint answers 403 to an authenticated user who is
\* neither staff nor superuser, an organizer endpoint answers 403 to an
\* authenticated user who is not an organizer, and the refused request
\* changes nothing.
C16_RoleEndpointsRefuse ==
    [][ /\ (resp'.op \in AdminOps /\ is_authenticated(resp'.user)
              /\ ~users[resp'.user].is_staff /\ ~users[resp'.user].is_superuser) =>
               /\ resp'.code = 403
               /\ UNCHANGED <<now, users, events, rsvps, reviews, externals, categories>>
        /\ (resp'.op \in OrganizerOps /\ is_authenticated(resp'.user)
              /\ ~users[resp'.user].is_organizer) =>
               /\ resp'.code = 403
               /\ UNCHANGED <<now, users, events, rsvps, reviews, externals, categories>>
      ]_vars

C16_Witness ==
    /\ resp.op = "AdminCategoryViewSet_create"
    /\ resp.code = 403
    /\ users[resp.user].is_organizer

====
